---- MODULE Spec2Model ----
(***************************************************************************)
(* Model of the response normalization code of the model comparison app:  *)
(* the tag repair in getModelResponse (app/api/chat/route.ts), and         *)
(* extractContent, processContent, the conversation state and the vote     *)
(* ledger of the chat page (app/chat/page.tsx).                            *)
(*                                                                         *)
(* Spec       one provider call of getModelResponse and the extraction     *)
(* SpecChat   the chat page: submits, replies, votes, the statistics       *)
(* SpecStats  the statistics effect on sessions with many votes            *)
(* SpecMath   processContent                                               *)
(* SpecExtract  repeated extractContent calls on one text                  *)
(* SpecPost   one POST /api/chat request                                   *)
(*                                                                         *)
(* A JavaScript string is modelled as a sequence of one-character strings, *)
(* so indexOf, substring, trim and the regular expression work on the same *)
(* positions as in the code.  Positions are 0-based as in JavaScript.      *)
(***************************************************************************)
EXTENDS Integers, Sequences, FiniteSets, TLC

VARIABLES raw, provider, content, reply, rendered, extracted, done

VARIABLES messages, modelAResponses, modelBResponses, isLoading, votes,
          voteStats, request, effectDue, voteLog

VARIABLES text, processed, mathDone

VARIABLES lastIndex, callLog

VARIABLES req, settled, response

\* getModelResponse and extractContent
textVars == <<raw, provider, content, reply, rendered, extracted, done>>

\* the chat page: chatState, voteStats, the request in flight, whether the
\* statistics effect is due, and the handleVote calls made so far
chatVars == <<messages, modelAResponses, modelBResponses, isLoading, votes,
              voteStats, request, effectDue, voteLog>>

\* processContent
mathVars == <<text, processed, mathDone>>

\* repeated extractContent calls on one text: the lastIndex left in the
\* RegExp object of the latest call for each tag, and the calls made so far
extractVars == <<lastIndex, callLog>>

\* one POST /api/chat request: the request body, what each getModelResponse
\* promise settled to, and the response sent
postVars == <<req, settled, response>>

vars == <<textVars, chatVars, mathVars, extractVars, postVars>>

----------------------------------------------------------------------------
(* Bounds *)

\* number of fragments a provider reply is concatenated from
MaxFrags == 3

\* number of prompts submitted in a chat session
MaxTurns == 2

\* number of clicks on the vote buttons in a chat session
MaxVoteCalls == 3

\* number of votes of the sessions the statistics effect is run on
MaxTally == 40

\* number of fragments a text given to processContent is concatenated from
MaxMathFrags == 3

\* number of extractContent calls made on one text
MaxExtractCalls == 3

----------------------------------------------------------------------------
(* String literals of the source *)

TagName(tag) ==
  IF tag = "reasoning" THEN <<"r","e","a","s","o","n","i","n","g">>
  ELSE <<"a","n","s","w","e","r">>

OpenTag(tag) == <<"<">> \o TagName(tag) \o <<">">>

CloseTag(tag) == <<"<","/">> \o TagName(tag) \o <<">">>

NL == <<"\n">>

NO_REASONING ==
  <<"T","h","e"," ","m","o","d","e","l"," ","d","i","d"," ","n","o","t"," ",
    "p","r","o","v","i","d","e"," ","e","x","p","l","i","c","i","t"," ",
    "r","e","a","s","o","n","i","n","g",".">>

NO_ANSWER ==
  <<"T","h","e"," ","m","o","d","e","l"," ","d","i","d"," ","n","o","t"," ",
    "p","r","o","v","i","d","e"," ","a","n"," ","e","x","p","l","i","c","i","t"," ",
    "a","n","s","w","e","r",".">>

NO_RESPONSE ==
  <<"N","o"," ","r","e","s","p","o","n","s","e"," ",
    "g","e","n","e","r","a","t","e","d">>

\* `Error: ${(openaiError as Error).message}`
ERROR_PREFIX == <<"E","r","r","o","r",":"," ">>

\* `Error: Unsupported model: ${model}`
UNSUPPORTED_MODEL ==
  <<"E","r","r","o","r",":"," ","U","n","s","u","p","p","o","r","t","e","d",
    " ","m","o","d","e","l",":"," ">>

\* a configured model name that holds none of 'gpt', 'ft:', 'claude'
OTHER_MODEL == <<"l","l","a","m","a","-","3">>

\* configured model names that select the OpenAI and the Anthropic branch
GPT_MODEL == <<"g","p","t","-","4","o">>

CLAUDE_MODEL == <<"c","l","a","u","d","e","-","3">>

\* `Error: Failed to get response from ${model}. ${(error as Error).message}`
FAILED_PREFIX ==
  <<"E","r","r","o","r",":"," ","F","a","i","l","e","d"," ","t","o"," ",
    "g","e","t"," ","r","e","s","p","o","n","s","e"," ","f","r","o","m"," ">>

----------------------------------------------------------------------------
(* String.prototype primitives used by the source *)

Min(S) == CHOOSE x \in S : \A y \in S : x <= y

Max(S) == CHOOSE x \in S : \A y \in S : x >= y

\* String.prototype.trim strips the WhiteSpace and LineTerminator characters
\* of ECMAScript from both ends: tab, line feed, vertical tab, form feed,
\* carriage return, space, U+00A0, U+1680, U+2000 to U+200A, U+2028,
\* U+2029, U+202F, U+205F, U+3000 and U+FEFF.  The characters from U+2000
\* on cannot be written in a string of this module and are written by
\* their code point
WhiteSpace ==
  {"\t", "\n", "", "\f", "\r", " ", " ", " ",
   "U+2000", "U+2001", "U+2002", "U+2003", "U+2004", "U+2005", "U+2006",
   "U+2007", "U+2008", "U+2009", "U+200A", "U+2028", "U+2029", "U+202F",
   "U+205F", "U+3000", "﻿"}

\* t occurs in s at 0-based position i
matchesAt(s, t, i) ==
  /\ i >= 0
  /\ i + Len(t) <= Len(s)
  /\ SubSeq(s, i + 1, i + Len(t)) = t

\* s.indexOf(t): 0-based position of the first occurrence, -1 when absent
indexOf(s, t) ==
  LET occ == {i \in 0..(Len(s) - Len(t)) : matchesAt(s, t, i)}
  IN  IF occ = {} THEN -1 ELSE Min(occ)

\* s.includes(t)
includes(s, t) == \E i \in 0..(Len(s) - Len(t)) : matchesAt(s, t, i)

\* s.substring(a, b): both ends clamped to 0..length, swapped when a > b
substring(s, a, b) ==
  LET clamp(n) == IF n < 0 THEN 0 ELSE IF n > Len(s) THEN Len(s) ELSE n
      lo == IF clamp(a) <= clamp(b) THEN clamp(a) ELSE clamp(b)
      hi == IF clamp(a) <= clamp(b) THEN clamp(b) ELSE clamp(a)
  IN  SubSeq(s, lo + 1, hi)

\* s.substring(a)
substringFrom(s, a) == substring(s, a, Len(s))

\* s.trim()
trim(s) ==
  LET keep == {i \in 1..Len(s) : s[i] \notin WhiteSpace}
  IN  IF keep = {} THEN <<>> ELSE SubSeq(s, Min(keep), Max(keep))

----------------------------------------------------------------------------
(* route.ts: the tag repair of getModelResponse *)

\* faulty variant of repairNeither: the text is trimmed before it is wrapped
repairNeitherTrimmed(c) ==
  OpenTag("reasoning") \o NL \o NO_REASONING \o NL \o CloseTag("reasoning")
    \o NL \o OpenTag("answer") \o NL \o trim(c) \o NL \o CloseTag("answer")

\* line 132 / 174: neither tag, the whole text becomes the answer body
repairNeither(c) ==
  OpenTag("reasoning") \o NL \o NO_REASONING \o NL \o CloseTag("reasoning")
    \o NL \o OpenTag("answer") \o NL \o c \o NL \o CloseTag("answer")

\* faulty variant of repairNoReasoning: no placeholder for an empty prefix
repairNoReasoningNoPlaceholder(c) ==
  LET answerStart == indexOf(c, OpenTag("answer"))
      beforeAnswer == trim(substring(c, 0, answerStart))
  IN  OpenTag("reasoning") \o NL \o beforeAnswer
        \o NL \o CloseTag("reasoning") \o NL
        \o substringFrom(c, answerStart)

\* faulty variant of repairNoReasoning: the prefix is not trimmed
repairNoReasoningUntrimmed(c) ==
  LET answerStart == indexOf(c, OpenTag("answer"))
      beforeAnswer == substring(c, 0, answerStart)
  IN  OpenTag("reasoning") \o NL
        \o (IF beforeAnswer # <<>> THEN beforeAnswer ELSE NO_REASONING)
        \o NL \o CloseTag("reasoning") \o NL
        \o substringFrom(c, answerStart)

\* lines 134-136 / 176-178: <answer> only, a reasoning block is prepended
repairNoReasoning(c) ==
  LET answerStart == indexOf(c, OpenTag("answer"))
      beforeAnswer == trim(substring(c, 0, answerStart))
  IN  OpenTag("reasoning") \o NL
        \o (IF beforeAnswer # <<>> THEN beforeAnswer ELSE NO_REASONING)
        \o NL \o CloseTag("reasoning") \o NL
        \o substringFrom(c, answerStart)

\* lines 138-140 / 180-182: <reasoning> only, an answer block is appended;
\* the code cuts at reasoningEnd + 11
repairNoAnswer(c) ==
  LET reasoningEnd == indexOf(c, CloseTag("reasoning"))
      afterReasoning == trim(substringFrom(c, reasoningEnd + 11))
  IN  substring(c, 0, reasoningEnd + 11)
        \o NL \o OpenTag("answer") \o NL
        \o (IF afterReasoning # <<>> THEN afterReasoning ELSE NO_ANSWER)
        \o NL \o CloseTag("answer")

\* faulty variant of repairTags: the last branch is a plain else
repairTagsPlainElse(c) ==
  IF ~includes(c, OpenTag("reasoning")) /\ ~includes(c, OpenTag("answer"))
    THEN repairNeither(c)
  ELSE IF ~includes(c, OpenTag("reasoning")) THEN repairNoReasoning(c)
  ELSE repairNoAnswer(c)

\* "Ensure the response has the required tags": the if / else-if chain that
\* both provider branches run on the reply text before returning it
repairTags(c) ==
  IF ~includes(c, OpenTag("reasoning")) /\ ~includes(c, OpenTag("answer"))
    THEN repairNeither(c)
  ELSE IF ~includes(c, OpenTag("reasoning")) THEN repairNoReasoning(c)
  ELSE IF ~includes(c, OpenTag("answer")) THEN repairNoAnswer(c)
  ELSE c

----------------------------------------------------------------------------
(* route.ts: getModelResponse and POST *)

\* model.includes('gpt') || model.includes('ft:')
isOpenAIModel(model) ==
  includes(model, <<"g","p","t">>) \/ includes(model, <<"f","t",":">>)

\* model.includes('claude')
isAnthropicModel(model) == includes(model, <<"c","l","a","u","d","e">>)

\* faulty variant of getModelResponse: an error thrown by a provider call
\* is passed on, the promise rejects
getModelResponseRethrows(model, outcome) ==
  IF isOpenAIModel(model) \/ isAnthropicModel(model)
  THEN IF outcome.kind = "clientThrows"
       THEN [rejected |-> FALSE,
             text |-> FAILED_PREFIX \o model \o <<".", " ">> \o outcome.text]
       ELSE IF outcome.kind = "throws"
       THEN [rejected |-> TRUE, text |-> ERROR_PREFIX \o outcome.text]
       ELSE IF isOpenAIModel(model)
       THEN [rejected |-> FALSE,
             text |-> repairTags(IF outcome.text # <<>> THEN outcome.text
                                 ELSE NO_RESPONSE)]
       ELSE [rejected |-> FALSE, text |-> repairTags(outcome.text)]
  ELSE [rejected |-> FALSE, text |-> UNSUPPORTED_MODEL \o model]

\* what the promise of getModelResponse settles to, for a request that
\* passed the validation of POST (the key of the model's provider is
\* present).  outcome is what the provider client does: "text" the call
\* returns the text, "throws" the call throws an Error with the message
\* text, "clientThrows" the construction of the client throws it
getModelResponse(model, outcome) ==
  IF isOpenAIModel(model) \/ isAnthropicModel(model)
  THEN IF outcome.kind = "clientThrows"
       THEN [rejected |-> FALSE,
             text |-> FAILED_PREFIX \o model \o <<".", " ">> \o outcome.text]
       ELSE IF outcome.kind = "throws"
       THEN [rejected |-> FALSE, text |-> ERROR_PREFIX \o outcome.text]
       ELSE IF isOpenAIModel(model)
       THEN [rejected |-> FALSE,
             text |-> repairTags(IF outcome.text # <<>> THEN outcome.text
                                 ELSE NO_RESPONSE)]
       ELSE [rejected |-> FALSE, text |-> repairTags(outcome.text)]
  ELSE [rejected |-> FALSE, text |-> UNSUPPORTED_MODEL \o model]

\* the checks of POST before the provider calls: none returns status 400
validRequest(b) ==
  /\ b.message = "text"
  /\ b.modelA # <<>> /\ b.modelB # <<>>
  /\ isOpenAIModel(b.modelA) => b.openaiKey
  /\ isOpenAIModel(b.modelB) => b.openaiKey
  /\ isAnthropicModel(b.modelA) => b.anthropicKey
  /\ isAnthropicModel(b.modelB) => b.anthropicKey

----------------------------------------------------------------------------
(* page.tsx: extractContent *)

\* faulty variant of regexExec: a greedy group, [\s\S]* instead of [\s\S]*?
regexExecGreedy(c, tag) ==
  LET open == OpenTag(tag)
      close == CloseTag(tag)
      ends(i) == {j \in (i + Len(open))..Len(c) : matchesAt(c, close, j)}
      starts == {i \in 0..Len(c) : matchesAt(c, open, i) /\ ends(i) # {}}
  IN  IF starts = {} THEN [found |-> FALSE, group |-> <<>>]
      ELSE LET i == Min(starts)
               j == Max(ends(i))
           IN  [found |-> TRUE, group |-> SubSeq(c, i + Len(open) + 1, j)]

\* new RegExp(`<${tag}>([\s\S]*?)</${tag}>`, 'g').exec(content) on a fresh
\* RegExp object (lastIndex 0): the leftmost opening tag from which the lazy
\* group can reach a closing tag, and the nearest such closing tag
regexExec(c, tag) ==
  LET open == OpenTag(tag)
      close == CloseTag(tag)
      ends(i) == {j \in (i + Len(open))..Len(c) : matchesAt(c, close, j)}
      starts == {i \in 0..Len(c) : matchesAt(c, open, i) /\ ends(i) # {}}
  IN  IF starts = {} THEN [found |-> FALSE, group |-> <<>>]
      ELSE LET i == Min(starts)
               j == Min(ends(i))
           IN  [found |-> TRUE, group |-> SubSeq(c, i + Len(open) + 1, j)]

\* faulty variant of extractFallback: the repairer's placeholder for an empty prefix
extractFallbackPlaceholder(c, tag) ==
  LET hasReasoning == includes(c, OpenTag("reasoning"))
      hasAnswer == includes(c, OpenTag("answer"))
  IN  IF tag = "reasoning" /\ ~hasReasoning /\ ~hasAnswer THEN <<>>
      ELSE IF tag = "answer" /\ ~hasReasoning /\ ~hasAnswer THEN trim(c)
      ELSE IF tag = "reasoning" /\ ~hasReasoning /\ hasAnswer THEN
        LET answerStart == indexOf(c, OpenTag("answer"))
            beforeAnswer == trim(substring(c, 0, answerStart))
        IN  IF beforeAnswer # <<>> THEN beforeAnswer ELSE NO_REASONING
      ELSE IF tag = "answer" /\ hasReasoning /\ ~hasAnswer THEN
        LET reasoningEnd == indexOf(c, CloseTag("reasoning"))
        IN  IF reasoningEnd # -1
            THEN trim(substringFrom(c, reasoningEnd + 11))
            ELSE <<>>
      ELSE <<>>

\* faulty variant of extractFallback: an untagged text is returned untrimmed
extractFallbackUntrimmed(c, tag) ==
  LET hasReasoning == includes(c, OpenTag("reasoning"))
      hasAnswer == includes(c, OpenTag("answer"))
  IN  IF tag = "reasoning" /\ ~hasReasoning /\ ~hasAnswer THEN <<>>
      ELSE IF tag = "answer" /\ ~hasReasoning /\ ~hasAnswer THEN c
      ELSE IF tag = "reasoning" /\ ~hasReasoning /\ hasAnswer THEN
        LET answerStart == indexOf(c, OpenTag("answer"))
        IN  trim(substring(c, 0, answerStart))
      ELSE IF tag = "answer" /\ hasReasoning /\ ~hasAnswer THEN
        LET reasoningEnd == indexOf(c, CloseTag("reasoning"))
        IN  IF reasoningEnd # -1
            THEN trim(substringFrom(c, reasoningEnd + 11))
            ELSE <<>>
      ELSE <<>>

\* lines 257-269: the regular expression did not match
extractFallback(c, tag) ==
  LET hasReasoning == includes(c, OpenTag("reasoning"))
      hasAnswer == includes(c, OpenTag("answer"))
  IN  IF tag = "reasoning" /\ ~hasReasoning /\ ~hasAnswer THEN <<>>
      ELSE IF tag = "answer" /\ ~hasReasoning /\ ~hasAnswer THEN trim(c)
      ELSE IF tag = "reasoning" /\ ~hasReasoning /\ hasAnswer THEN
        LET answerStart == indexOf(c, OpenTag("answer"))
        IN  trim(substring(c, 0, answerStart))
      ELSE IF tag = "answer" /\ hasReasoning /\ ~hasAnswer THEN
        LET reasoningEnd == indexOf(c, CloseTag("reasoning"))
        IN  IF reasoningEnd # -1
            THEN trim(substringFrom(c, reasoningEnd + 11))
            ELSE <<>>
      ELSE <<>>

\* faulty variant of extractContent: an unclosed block yields the text after
\* its opening tag
extractContentUnclosed(c, tag) ==
  LET match == regexExec(c, tag)
  IN  IF match.found THEN trim(match.group)
      ELSE IF includes(c, OpenTag(tag))
      THEN trim(substringFrom(c, indexOf(c, OpenTag(tag)) + Len(OpenTag(tag))))
      ELSE extractFallback(c, tag)

extractContent(c, tag) ==
  LET match == regexExec(c, tag)
  IN  IF match.found THEN trim(match.group) ELSE extractFallback(c, tag)

\* regex.exec(content) of a RegExp with the g flag whose lastIndex is from:
\* the search starts at from, a match leaves lastIndex after the match, a
\* failure resets it to 0
regexExecFrom(c, tag, from) ==
  LET open == OpenTag(tag)
      close == CloseTag(tag)
      ends(i) == {j \in (i + Len(open))..Len(c) : matchesAt(c, close, j)}
      starts == {i \in from..Len(c) : matchesAt(c, open, i) /\ ends(i) # {}}
  IN  IF starts = {} THEN [found |-> FALSE, group |-> <<>>, lastIndex |-> 0]
      ELSE LET i == Min(starts)
               j == Min(ends(i))
           IN  [found |-> TRUE, group |-> SubSeq(c, i + Len(open) + 1, j),
                lastIndex |-> j + Len(close)]

\* faulty variant of regexLastIndex: one RegExp object per tag is kept and
\* used by every call
regexLastIndexKept(previous) == previous

\* the lastIndex of the RegExp object a call of extractContent executes:
\* the object is made by new RegExp inside the call, so it is 0 whatever
\* the previous call left in its own object
regexLastIndex(previous) == 0

\* one call of extractContent with the RegExp object made explicit: the
\* result, and the lastIndex the call leaves in its object
extractContentCall(c, tag, previous) ==
  LET match == regexExecFrom(c, tag, regexLastIndex(previous))
  IN  [result |-> IF match.found THEN trim(match.group)
                  ELSE extractFallback(c, tag),
       lastIndex |-> match.lastIndex]

----------------------------------------------------------------------------
(* page.tsx: the vote ledger *)

\* faulty variant of handleVote: the vote is appended even when the turn
\* already has one
handleVoteAlwaysAppend(vs, messageIndex, winner) ==
  Append(vs, [messageIndex |-> messageIndex, winner |-> winner])

\* handleVote: the votes array it stores.  findIndex gives the first entry
\* of the turn; the handler is recreated by every render and a click is
\* handled after the render of the previous one, so chatState.votes of the
\* closure and prev.votes of the updater are the same array vs
handleVote(vs, messageIndex, winner) ==
  LET existing == {k \in 1..Len(vs) : vs[k].messageIndex = messageIndex}
  IN  IF existing # {}
      THEN [vs EXCEPT ![Min(existing)] =
              [messageIndex |-> messageIndex, winner |-> winner]]
      ELSE Append(vs, [messageIndex |-> messageIndex, winner |-> winner])

\* faulty variant of votesReplaced: a changed vote is written into the
\* stored array in place
votesReplacedOnAppendOnly(vs, messageIndex, winner) ==
  \A k \in 1..Len(vs) : vs[k].messageIndex # messageIndex

\* handleVote stores a new array object in both branches ([...chatState.votes]
\* and [...prev.votes, vote]), so the [chatState.votes] dependency of the
\* statistics effect changes with every call
votesReplaced(vs, messageIndex, winner) == TRUE

\* faulty variant of settledVotes: the update spreads chatState of the
\* closure of handleSubmit, ({...chatState, isLoading: false})
settledVotesFromClosure(current, closure) == closure

\* the votes array after the state update handleSubmit makes when its
\* request settles: setChatState(prev => ({...prev, ...})) keeps the votes
\* of the state at the time of the update, not those of the closure
settledVotes(current, closure) == current

\* faulty variant of getVoteForMessage: the turn index used as array position
getVoteForMessageByPosition(vs, messageIndex) ==
  IF messageIndex + 1 <= Len(vs) THEN vs[messageIndex + 1].winner ELSE "null"

\* getVoteForMessage: votes.find gives the first entry of the turn
getVoteForMessage(vs, messageIndex) ==
  LET found == {k \in 1..Len(vs) : vs[k].messageIndex = messageIndex}
  IN  IF found # {} THEN vs[Min(found)].winner ELSE "null"

----------------------------------------------------------------------------
(* page.tsx: the statistics effect *)

\* 2^k mod n
RECURSIVE Pow2Mod(_, _)
Pow2Mod(k, n) == IF k = 0 THEN 1 % n ELSE (2 * Pow2Mod(k - 1, n)) % n

\* 2^k
RECURSIVE Pow2(_)
Pow2(k) == IF k = 0 THEN 1 ELSE 2 * Pow2(k - 1)

\* the least c with wins * 2^c >= total: wins / total lies in the binade
\* [2^-c, 2^(1-c)) for 0 < wins <= total
RECURSIVE BinadeShift(_, _)
BinadeShift(wins, total) ==
  IF wins >= total THEN 0 ELSE 1 + BinadeShift(2 * wins, total)

\* the greatest f with 2^f <= n
RECURSIVE FloorLog2(_)
FloorLog2(n) == IF n < 2 THEN 0 ELSE 1 + FloorLog2(n \div 2)

\* wins / total as an IEEE 754 double: the 53-bit quotient is
\* floor(wins * 2^s / total) with s = 52 + BinadeShift, rounded to nearest
\* (ties to even).  The value is the rounding error in units of
\* 1 / (total * 2^s): negative when the double is below wins / total
QuotientError(wins, total) ==
  LET s == 52 + BinadeShift(wins, total)
      r == ((wins % total) * Pow2Mod(s, total)) % total
      r2 == ((wins % (2 * total)) * Pow2Mod(s, 2 * total)) % (2 * total)
  IN  IF r = 0 THEN 0
      ELSE IF 2 * r > total \/ (2 * r = total /\ r2 >= total) THEN total - r
      ELSE 0 - r

\* Math.round((wins / total) * 100) in double arithmetic, 0 < wins <= total.
\* Math.round rounds to the nearest integer, halves up.  The two roundings
\* of the double operations move the product by far less than 1 / (2 total),
\* so they change the result only when 100 wins / total is exactly m - 1/2:
\* then the result is m - 1 when the quotient was rounded down and the
\* product 100 * (wins / total) is not rounded back up to m - 1/2, i.e. when
\* it lies more than half a unit in the last place below m - 1/2
winRate(wins, total) ==
  LET m == (200 * wins + total) \div (2 * total)
      half == (200 * wins + total) % (2 * total) = 0
      d == QuotientError(wins, total)
      f == FloorLog2(2 * m - 1)
      ulps == IF 2 * m - 1 = Pow2(f) THEN 800 ELSE 400
  IN  IF half /\ d < 0
         /\ ulps * (0 - d) > total * Pow2(BinadeShift(wins, total) + f)
      THEN m - 1
      ELSE m

\* faulty variant of computeVoteStats: no early return for an empty ledger;
\* 0 / 0 is NaN and Math.round(NaN) is NaN, written -1 here
computeVoteStatsNoGuard(vs) ==
  LET modelAWins == Cardinality({k \in 1..Len(vs) : vs[k].winner = "A"})
      modelBWins == Cardinality({k \in 1..Len(vs) : vs[k].winner = "B"})
      totalVotes == Len(vs)
      rate(wins) == IF totalVotes = 0 THEN -1
                    ELSE IF wins = 0 THEN 0 ELSE winRate(wins, totalVotes)
  IN  [modelA |-> [wins |-> modelAWins, winRate |-> rate(modelAWins)],
       modelB |-> [wins |-> modelBWins, winRate |-> rate(modelBWins)]]

\* the body of the effect on [chatState.votes]: the value given to
\* setVoteStats
computeVoteStats(vs) ==
  IF Len(vs) = 0
  THEN [modelA |-> [wins |-> 0, winRate |-> 0],
        modelB |-> [wins |-> 0, winRate |-> 0]]
  ELSE
    LET modelAWins == Cardinality({k \in 1..Len(vs) : vs[k].winner = "A"})
        modelBWins == Cardinality({k \in 1..Len(vs) : vs[k].winner = "B"})
        totalVotes == Len(vs)
        rate(wins) == IF wins = 0 THEN 0 ELSE winRate(wins, totalVotes)
    IN  [modelA |-> [wins |-> modelAWins, winRate |-> rate(modelAWins)],
         modelB |-> [wins |-> modelBWins, winRate |-> rate(modelBWins)]]

----------------------------------------------------------------------------
(* page.tsx: processContent *)

\* [a-zA-Z]
Letter ==
  {"a", "b", "c", "d", "e", "f", "g", "h", "i", "j", "k", "l", "m",
   "n", "o", "p", "q", "r", "s", "t", "u", "v", "w", "x", "y", "z",
   "A", "B", "C", "D", "E", "F", "G", "H", "I", "J", "K", "L", "M",
   "N", "O", "P", "Q", "R", "S", "T", "U", "V", "W", "X", "Y", "Z"}

\* [0-9]
Digit == {"0", "1", "2", "3", "4", "5", "6", "7", "8", "9"}

\* [a-zA-Z0-9]
AlphaNum == Letter \cup Digit

\* the greedy match of class+ or class* from 0-based position i: the position
\* after the longest run of characters of the class
RECURSIVE runEnd(_, _, _)
runEnd(s, i, class) ==
  IF i < Len(s) /\ s[i + 1] \in class THEN runEnd(s, i + 1, class) ELSE i

\* the character at 0-based position i
charAt(s, i) == s[i + 1]

\* /\\\\([a-zA-Z]+)/g replaced by '\\$1', scanning from position i: two
\* backslashes before a command name become one
RECURSIVE unescapeCommands(_, _)
unescapeCommands(s, i) ==
  IF i >= Len(s) THEN <<>>
  ELSE
    LET e == runEnd(s, i + 2, Letter)
    IN  IF matchesAt(s, <<"\\", "\\">>, i) /\ e > i + 2
        THEN <<"\\">> \o substring(s, i + 2, e) \o unescapeCommands(s, e)
        ELSE <<charAt(s, i)>> \o unescapeCommands(s, i + 1)

\* the end of the match of /([^$])(\\?[a-zA-Z]+\([a-zA-Z0-9]+\))([^$])/ that
\* starts at position i, -1 when there is none.  Every quantifier is followed
\* by a character outside its class, so backtracking finds nothing more
functionCallEnd(s, i) ==
  LET a == IF i + 1 < Len(s) /\ charAt(s, i + 1) = "\\" THEN i + 2 ELSE i + 1
      b == runEnd(s, a, Letter)
      c == runEnd(s, b + 1, AlphaNum)
  IN  IF /\ i < Len(s) /\ charAt(s, i) # "$"
         /\ b > a
         /\ b < Len(s) /\ charAt(s, b) = "("
         /\ c > b + 1
         /\ c < Len(s) /\ charAt(s, c) = ")"
         /\ c + 1 < Len(s) /\ charAt(s, c + 1) # "$"
      THEN c + 2
      ELSE -1

\* the second replace, scanning from position i: '$1$$$2$$$3' puts a dollar
\* on each side of group 2; the search resumes after group 3
RECURSIVE wrapFunctionCalls(_, _)
wrapFunctionCalls(s, i) ==
  IF i >= Len(s) THEN <<>>
  ELSE
    LET e == functionCallEnd(s, i)
    IN  IF e # -1
        THEN <<charAt(s, i), "$">> \o substring(s, i + 1, e - 1)
               \o <<"$", charAt(s, e - 1)>> \o wrapFunctionCalls(s, e)
        ELSE <<charAt(s, i)>> \o wrapFunctionCalls(s, i + 1)

\* the end of the match of /([^$])([a-zA-Z])(\^[0-9]+)([^$])/, or of the same
\* with _ for \^, that starts at position i, -1 when there is none.  When
\* the longest run of digits is followed by a dollar or by the end of the
\* text, the engine backtracks and gives the last digit to group 4
scriptEnd(s, i, mark) ==
  LET d == runEnd(s, i + 3, Digit)
  IN  IF /\ i < Len(s) /\ charAt(s, i) # "$"
         /\ i + 1 < Len(s) /\ charAt(s, i + 1) \in Letter
         /\ i + 2 < Len(s) /\ charAt(s, i + 2) = mark
         /\ d > i + 3
      THEN IF d < Len(s) /\ charAt(s, d) # "$" THEN d + 1
           ELSE IF d > i + 4 THEN d
           ELSE -1
      ELSE -1

\* the third and the fourth replace, scanning from position i:
\* '$1$$$2$3$$$4' puts a dollar on each side of groups 2 and 3
RECURSIVE wrapScripts(_, _, _)
wrapScripts(s, i, mark) ==
  IF i >= Len(s) THEN <<>>
  ELSE
    LET e == scriptEnd(s, i, mark)
    IN  IF e # -1
        THEN <<charAt(s, i), "$">> \o substring(s, i + 1, e - 1)
               \o <<"$", charAt(s, e - 1)>> \o wrapScripts(s, e, mark)
        ELSE <<charAt(s, i)>> \o wrapScripts(s, i + 1, mark)

\* the position of the first dollar at or after position i, -1 when none
nextDollar(s, i) ==
  LET at == {k \in i..(Len(s) - 1) : charAt(s, k) = "$"}
  IN  IF at = {} THEN -1 ELSE Min(at)

\* /\$([^$]*)\$/g replaced by match.trim(), scanning from position i: the
\* match is the whole span, both dollars included
RECURSIVE trimSpans(_, _)
trimSpans(s, i) ==
  IF i >= Len(s) THEN <<>>
  ELSE
    LET j == nextDollar(s, i + 1)
    IN  IF charAt(s, i) = "$" /\ j # -1
        THEN trim(substring(s, i, j + 1)) \o trimSpans(s, j + 1)
        ELSE <<charAt(s, i)>> \o trimSpans(s, i + 1)

\* content.includes('$') && content.includes('\\')
alreadyDelimited(c) == includes(c, <<"$">>) /\ includes(c, <<"\\">>)

\* faulty variant of processContent: the rewrite rules are applied to text
\* that holds a dollar and a backslash as well
processContentNoShortCircuit(c) ==
  IF c = <<>> THEN <<>>
  ELSE
    LET p1 == unescapeCommands(c, 0)
        p2 == wrapFunctionCalls(p1, 0)
        p3 == wrapScripts(p2, 0, "^")
        p4 == wrapScripts(p3, 0, "_")
    IN  trimSpans(p4, 0)

processContent(c) ==
  IF c = <<>> THEN <<>>
  ELSE IF alreadyDelimited(c) THEN c
  ELSE
    LET p1 == unescapeCommands(c, 0)
        p2 == wrapFunctionCalls(p1, 0)
        p3 == wrapScripts(p2, 0, "^")
        p4 == wrapScripts(p3, 0, "_")
    IN  trimSpans(p4, 0)

----------------------------------------------------------------------------
(* Inputs: the texts a provider may return *)

Fragments ==
  { OpenTag("reasoning"), CloseTag("reasoning"),
    OpenTag("answer"), CloseTag("answer"),
    <<"4","2">>, <<"x">>, <<" ">>, <<"a"," ","f","(","x",")"," ","b">>,
    OpenTag("answer") \o <<"4","2">> \o CloseTag("answer"),
    OpenTag("reasoning") \o <<"x">> \o CloseTag("reasoning") }

RECURSIVE Concat(_)
Concat(fs) == IF fs = <<>> THEN <<>> ELSE Head(fs) \o Concat(Tail(fs))

Replies ==
  { Concat(fs) : fs \in UNION { [1..n -> Fragments] : n \in 0..MaxFrags } }

----------------------------------------------------------------------------
(* State machine *)

NoExtract == [reasoning |-> <<>>, answer |-> <<>>]

ZeroStats == [modelA |-> [wins |-> 0, winRate |-> 0],
              modelB |-> [wins |-> 0, winRate |-> 0]]

\* request.votes is chatState.votes of the render whose handleSubmit made
\* the request, the array its closure holds; votedMeanwhile records that
\* handleVote was called while the request was in flight
NoRequest == [pending |-> FALSE, message |-> <<>>, votes |-> <<>>,
              votedMeanwhile |-> FALSE]

\* the chat page after construction: the useState initial values, no
\* request in flight, the effects of the first render still to run
ChatStart ==
  /\ messages = <<>>
  /\ modelAResponses = <<>>
  /\ modelBResponses = <<>>
  /\ isLoading = FALSE
  /\ votes = <<>>
  /\ voteStats = ZeroStats
  /\ request = NoRequest
  /\ effectDue = TRUE
  /\ voteLog = <<>>

\* no processContent call made
MathStart ==
  /\ text = <<>>
  /\ processed = <<>>
  /\ mathDone = FALSE

\* the tag names extractContent is called with
Tags == {"reasoning", "answer"}

\* no repeated extractContent call made
ExtractStart ==
  /\ lastIndex = [tag \in Tags |-> 0]
  /\ callLog = <<>>

NoResponse == [status |-> 0, modelAResponse |-> <<>>, modelBResponse |-> <<>>]

NoBody == [message |-> "undefined", modelA |-> <<>>, modelB |-> <<>>,
           openaiKey |-> FALSE, anthropicKey |-> FALSE]

NoOutcome == [kind |-> "none", text |-> <<>>]

Unsettled == [done |-> FALSE, outcome |-> NoOutcome, rejected |-> FALSE,
              text |-> <<>>]

\* no POST request received
PostStart ==
  /\ req = NoBody
  /\ settled = [a |-> Unsettled, b |-> Unsettled]
  /\ response = NoResponse

\* no provider call made
TextStart ==
  /\ provider = "none"
  /\ content = <<>>
  /\ reply = <<>>
  /\ rendered = NoExtract
  /\ extracted = NoExtract
  /\ done = {}

\* raw is the text the provider call produces: the reply text, or the
\* message of the error it throws
Init ==
  /\ raw \in Replies
  /\ TextStart
  /\ ExtractStart
  /\ PostStart
  /\ ChatStart
  /\ MathStart

\* getModelResponse, OpenAI branch: an empty reply text is replaced before
\* the repair
OpenAIReply ==
  /\ "reply" \notin done /\ "error" \notin done
  /\ provider' = "openai"
  /\ content' = (IF raw # <<>> THEN raw ELSE NO_RESPONSE)
  /\ reply' = repairTags(content')
  /\ done' = done \cup {"reply"}
  /\ UNCHANGED <<raw, rendered, extracted, chatVars, mathVars, extractVars, postVars>>

\* getModelResponse, Anthropic branch: the text block is repaired as is
AnthropicReply ==
  /\ "reply" \notin done /\ "error" \notin done
  /\ provider' = "anthropic"
  /\ content' = raw
  /\ reply' = repairTags(content')
  /\ done' = done \cup {"reply"}
  /\ UNCHANGED <<raw, rendered, extracted, chatVars, mathVars, extractVars, postVars>>

\* the two segments the page extracts from a stored reply
segments(c) == [reasoning |-> extractContent(c, "reasoning"),
                answer |-> extractContent(c, "answer")]

\* the page renders a stored reply: for each segment
\* processContent(extractContent(content, tag)) is given to ReactMarkdown
RenderReply ==
  /\ "reply" \in done \/ "error" \in done
  /\ "render" \notin done
  /\ rendered' = [reasoning |-> processContent(segments(reply).reasoning),
                  answer |-> processContent(segments(reply).answer)]
  /\ done' = done \cup {"render"}
  /\ UNCHANGED <<raw, provider, content, reply, extracted, chatVars, mathVars, extractVars, postVars>>

\* extractContent applied to a text that did not go through the repair
ExtractRaw ==
  /\ "extract" \notin done
  /\ extracted' = [reasoning |-> extractContent(raw, "reasoning"),
                   answer |-> extractContent(raw, "answer")]
  /\ done' = done \cup {"extract"}
  /\ UNCHANGED <<raw, provider, content, reply, rendered, chatVars, mathVars, extractVars, postVars>>

\* getModelResponse, the inner catch of either provider branch: the call
\* throws and the error message is returned as the reply
ProviderError ==
  /\ "reply" \notin done /\ "error" \notin done
  /\ provider' \in {"openai", "anthropic"}
  /\ reply' = ERROR_PREFIX \o raw
  /\ done' = done \cup {"error"}
  /\ UNCHANGED <<raw, content, rendered, extracted, chatVars, mathVars, extractVars, postVars>>

\* getModelResponse, the final else: the model name selects no provider
UnsupportedModel ==
  /\ "reply" \notin done /\ "error" \notin done
  /\ provider' = "unsupported"
  /\ reply' = UNSUPPORTED_MODEL \o OTHER_MODEL
  /\ done' = done \cup {"error"}
  /\ UNCHANGED <<raw, content, rendered, extracted, chatVars, mathVars, extractVars, postVars>>

Next ==
  \/ OpenAIReply \/ AnthropicReply \/ ProviderError \/ UnsupportedModel
  \/ RenderReply \/ ExtractRaw

Spec == Init /\ [][Next]_vars

----------------------------------------------------------------------------
(* State machine of the chat page *)

\* the prompts typed into the form; handleSubmit returns early on a blank one
Prompts == {<<"p">>, <<"q">>}

\* the text the route returns for one model and one message: the route
\* keeps no state, the reply depends on the message of the request only
replyTo(model, message) == <<model, ":">> \o message

InitChat ==
  /\ raw = <<>>
  /\ TextStart
  /\ ExtractStart
  /\ PostStart
  /\ ChatStart
  /\ MathStart

\* faulty variant of HandleSubmit: the message list is started anew
HandleSubmitFreshList(input) ==
  /\ ~isLoading
  /\ ~request.pending
  /\ Len(messages) < MaxTurns
  /\ messages' = <<[role |-> "user", content |-> input]>>
  /\ isLoading' = TRUE
  /\ request' = [pending |-> TRUE, message |-> input, votes |-> votes,
                 votedMeanwhile |-> FALSE]
  /\ UNCHANGED <<modelAResponses, modelBResponses, votes, voteStats,
                 effectDue, voteLog, textVars, mathVars, extractVars, postVars>>

\* handleSubmit up to the fetch.  The textarea and the submit button are
\* disabled while chatState.isLoading, so no second request starts
HandleSubmit(input) ==
  /\ ~isLoading
  /\ ~request.pending
  /\ Len(messages) < MaxTurns
  /\ messages' = Append(messages, [role |-> "user", content |-> input])
  /\ isLoading' = TRUE
  /\ request' = [pending |-> TRUE, message |-> input, votes |-> votes,
                 votedMeanwhile |-> FALSE]
  /\ UNCHANGED <<modelAResponses, modelBResponses, votes, voteStats,
                 effectDue, voteLog, textVars, mathVars, extractVars, postVars>>

\* faulty variant of RequestSucceeds: the reply of model A stored on its own
RequestSucceedsFirstReplyOnly ==
  /\ request.pending
  /\ modelAResponses' =
       Append(modelAResponses,
              [role |-> "assistant", model |-> "A",
               content |-> replyTo("A", request.message)])
  /\ isLoading' = FALSE
  /\ request' = [request EXCEPT !.pending = FALSE]
  /\ UNCHANGED <<messages, modelBResponses, votes, voteStats, effectDue,
                 voteLog, textVars, mathVars, extractVars, postVars>>

\* handleSubmit after the fetch, response.ok: both replies are appended in
\* one state update
RequestSucceeds ==
  /\ request.pending
  /\ modelAResponses' =
       Append(modelAResponses,
              [role |-> "assistant", model |-> "A",
               content |-> replyTo("A", request.message)])
  /\ modelBResponses' =
       Append(modelBResponses,
              [role |-> "assistant", model |-> "B",
               content |-> replyTo("B", request.message)])
  /\ isLoading' = FALSE
  /\ votes' = settledVotes(votes, request.votes)
  /\ request' = [request EXCEPT !.pending = FALSE]
  /\ UNCHANGED <<messages, voteStats, effectDue, voteLog,
                 textVars, mathVars, extractVars, postVars>>

\* faulty variant of RequestFails: the catch block leaves isLoading as it is
RequestFailsKeepsLoading ==
  /\ request.pending
  /\ votes' = settledVotes(votes, request.votes)
  /\ request' = [request EXCEPT !.pending = FALSE]
  /\ UNCHANGED <<messages, modelAResponses, modelBResponses, isLoading,
                 voteStats, effectDue, voteLog, textVars, mathVars,
                 extractVars, postVars>>

\* handleSubmit after the fetch, the catch block: fetch rejected or the
\* response not ok.  The user message stays, no reply is stored
RequestFails ==
  /\ request.pending
  /\ isLoading' = FALSE
  /\ votes' = settledVotes(votes, request.votes)
  /\ request' = [request EXCEPT !.pending = FALSE]
  /\ UNCHANGED <<messages, modelAResponses, modelBResponses,
                 voteStats, effectDue, voteLog, textVars, mathVars,
                 extractVars, postVars>>

\* faulty variant of HandleVote: a vote button under every message, also
\* under one that has no replies
HandleVoteAnyMessage(messageIndex, winner) ==
  /\ Len(voteLog) < MaxVoteCalls
  /\ messageIndex < Len(messages)
  /\ votes' = handleVote(votes, messageIndex, winner)
  /\ effectDue' = (effectDue \/ votesReplaced(votes, messageIndex, winner))
  /\ voteLog' = Append(voteLog,
                       [messageIndex |-> messageIndex, winner |-> winner])
  /\ request' = [request EXCEPT
                   !.votedMeanwhile = request.votedMeanwhile \/ request.pending]
  /\ UNCHANGED <<messages, modelAResponses, modelBResponses, isLoading,
                 voteStats, textVars, mathVars, extractVars, postVars>>

\* a click on the vote button of model winner under message messageIndex.
\* The button is rendered inside chatState.messages.map, in the card that
\* is rendered when the model's response of that index exists
HandleVote(messageIndex, winner) ==
  /\ Len(voteLog) < MaxVoteCalls
  /\ messageIndex < Len(messages)
  /\ winner = "A" => messageIndex < Len(modelAResponses)
  /\ winner = "B" => messageIndex < Len(modelBResponses)
  /\ votes' = handleVote(votes, messageIndex, winner)
  /\ effectDue' = (effectDue \/ votesReplaced(votes, messageIndex, winner))
  /\ voteLog' = Append(voteLog,
                       [messageIndex |-> messageIndex, winner |-> winner])
  /\ request' = [request EXCEPT
                   !.votedMeanwhile = request.votedMeanwhile \/ request.pending]
  /\ UNCHANGED <<messages, modelAResponses, modelBResponses, isLoading,
                 voteStats, textVars, mathVars, extractVars, postVars>>

\* the effect on [chatState.votes]: runs after the first render and after
\* every render in which chatState.votes is another array
VoteStatsEffect ==
  /\ effectDue
  /\ voteStats' = computeVoteStats(votes)
  /\ effectDue' = FALSE
  /\ UNCHANGED <<messages, modelAResponses, modelBResponses, isLoading,
                 votes, request, voteLog, textVars, mathVars, extractVars, postVars>>

NextChat ==
  \/ \E input \in Prompts : HandleSubmit(input)
  \/ RequestSucceeds
  \/ RequestFails
  \/ \E messageIndex \in 0..(MaxTurns - 1), winner \in {"A", "B"} :
       HandleVote(messageIndex, winner)
  \/ VoteStatsEffect

SpecChat == InitChat /\ [][NextChat]_vars

\* React runs the pending effects of a render before it handles the next
\* event, so a due effect is never postponed forever
FairSpecChat == SpecChat /\ WF_vars(VoteStatsEffect)

\* the promise of fetch settles: it resolves or it rejects
FairSpecSubmit == SpecChat /\ WF_vars(RequestSucceeds \/ RequestFails)

----------------------------------------------------------------------------
(* State machine of the statistics effect on long sessions *)

\* the ledger after a votes for model A followed by b votes for model B,
\* one per turn
tally(a, b) ==
  [k \in 1..(a + b) |->
     [messageIndex |-> k - 1, winner |-> IF k <= a THEN "A" ELSE "B"]]

\* a session of a + b resolved turns in which every turn was voted on once,
\* in order; the effect of the last vote is still to run
InitStats ==
  \E a \in 0..MaxTally, b \in 0..MaxTally :
    /\ a + b <= MaxTally
    /\ raw = <<>>
    /\ TextStart
    /\ ExtractStart
    /\ PostStart
    /\ MathStart
    /\ messages = [k \in 1..(a + b) |-> [role |-> "user", content |-> <<"p">>]]
    /\ modelAResponses =
         [k \in 1..(a + b) |->
            [role |-> "assistant", model |-> "A",
             content |-> replyTo("A", <<"p">>)]]
    /\ modelBResponses =
         [k \in 1..(a + b) |->
            [role |-> "assistant", model |-> "B",
             content |-> replyTo("B", <<"p">>)]]
    /\ isLoading = FALSE
    /\ request = NoRequest
    /\ votes = tally(a, b)
    /\ voteLog = tally(a, b)
    /\ voteStats = IF a + b = 0 THEN ZeroStats
                   ELSE computeVoteStats(SubSeq(tally(a, b), 1, a + b - 1))
    /\ effectDue = TRUE

NextStats == VoteStatsEffect

SpecStats == InitStats /\ [][NextStats]_vars

----------------------------------------------------------------------------
(* State machine of repeated extractContent calls *)

InitExtract ==
  /\ raw \in Replies
  /\ TextStart
  /\ ExtractStart
  /\ PostStart
  /\ ChatStart
  /\ MathStart

\* one call extractContent(raw, tag); the renders call it again and again on
\* the same stored text, for either tag and in any order
ExtractCall(tag) ==
  /\ Len(callLog) < MaxExtractCalls
  /\ LET call == extractContentCall(raw, tag, lastIndex[tag])
     IN  /\ callLog' = Append(callLog, [tag |-> tag, result |-> call.result])
         /\ lastIndex' = [lastIndex EXCEPT ![tag] = call.lastIndex]
  /\ UNCHANGED <<textVars, chatVars, mathVars, postVars>>

NextExtract == \E tag \in Tags : ExtractCall(tag)

SpecExtract == InitExtract /\ [][NextExtract]_vars

----------------------------------------------------------------------------
(* State machine of one POST /api/chat request *)

ModelNames == {GPT_MODEL, CLAUDE_MODEL, OTHER_MODEL, <<>>}

\* what a provider client may do: return one of these texts, or throw an
\* Error with one of them as its message
PostTexts ==
  { <<>>, <<"x">>,
    OpenTag("answer") \o <<"4", "2">> \o CloseTag("answer"),
    OpenTag("reasoning") \o <<"x">> \o CloseTag("reasoning") }

Outcomes ==
  [kind : {"text", "throws", "clientThrows"}, text : PostTexts]

\* the message of a request body: absent or null, a value that is not a
\* string, the empty string, a non-empty string
MessageKinds == {"undefined", "number", "empty", "text"}

\* message.substring(0, 50) of the console.log before the checks throws a
\* TypeError
loggingThrows(b) == b.message \in {"undefined", "number"}

\* a request body has been parsed
InitPost ==
  /\ req \in [message : MessageKinds, modelA : ModelNames, modelB : ModelNames,
              openaiKey : BOOLEAN, anthropicKey : BOOLEAN]
  /\ settled = [a |-> Unsettled, b |-> Unsettled]
  /\ response = NoResponse
  /\ raw = <<>>
  /\ TextStart
  /\ ExtractStart
  /\ ChatStart
  /\ MathStart

\* POST, the catch block: the console.log that precedes the checks reads
\* message.substring and throws when message is no string
RequestThrows ==
  /\ response.status = 0
  /\ loggingThrows(req)
  /\ response' = [status |-> 500, modelAResponse |-> <<>>,
                  modelBResponse |-> <<>>]
  /\ UNCHANGED <<req, settled, textVars, chatVars, mathVars, extractVars>>

\* POST, one of the status 400 returns of the validation
RejectRequest ==
  /\ response.status = 0
  /\ ~loggingThrows(req)
  /\ ~validRequest(req)
  /\ response' = [status |-> 400, modelAResponse |-> <<>>,
                  modelBResponse |-> <<>>]
  /\ UNCHANGED <<req, settled, textVars, chatVars, mathVars, extractVars>>

\* one of the two getModelResponse promises of Promise.all settles; they run
\* concurrently and settle in either order
SettleModel(side, outcome) ==
  /\ response.status = 0
  /\ validRequest(req)
  /\ ~settled[side].done
  /\ LET model == IF side = "a" THEN req.modelA ELSE req.modelB
         promise == getModelResponse(model, outcome)
     IN  settled' = [settled EXCEPT ![side] =
                       [done |-> TRUE, outcome |-> outcome,
                        rejected |-> promise.rejected, text |-> promise.text]]
  /\ UNCHANGED <<req, response, textVars, chatVars, mathVars, extractVars>>

\* POST after await Promise.all: the JSON response with both texts, or the
\* status 500 of the catch block when a promise rejected
Respond ==
  /\ response.status = 0
  /\ settled.a.done /\ settled.b.done
  /\ response' =
       IF settled.a.rejected \/ settled.b.rejected
       THEN [status |-> 500, modelAResponse |-> <<>>, modelBResponse |-> <<>>]
       ELSE [status |-> 200, modelAResponse |-> settled.a.text,
             modelBResponse |-> settled.b.text]
  /\ UNCHANGED <<req, settled, textVars, chatVars, mathVars, extractVars>>

NextPost ==
  \/ RequestThrows
  \/ RejectRequest
  \/ \E side \in {"a", "b"}, outcome \in Outcomes : SettleModel(side, outcome)
  \/ Respond

SpecPost == InitPost /\ [][NextPost]_vars

----------------------------------------------------------------------------
(* State machine of processContent *)

\* pieces of the texts given to processContent: script and function tokens,
\* delimiters, backslashes and plain text
MathFragments ==
  { <<"x", "^", "2">>, <<"+", "1", "=", "0">>, <<"$">>, <<" ">>, <<"\\">>,
    <<"f", "(", "x", ")">>, <<"a", "_", "1">>, <<"x">>, <<"1">>,
    <<" ", "x", " ">>, <<" ", "x", "^", "2", " ">> }

MathTexts ==
  UNION {{Concat(fs) : fs \in [1..n -> MathFragments]} : n \in 0..MaxMathFrags}

InitMath ==
  /\ raw = <<>>
  /\ TextStart
  /\ ExtractStart
  /\ PostStart
  /\ ChatStart
  /\ text \in MathTexts
  /\ processed = <<>>
  /\ mathDone = FALSE

\* one call processContent(text) of the render
ProcessContent ==
  /\ ~mathDone
  /\ processed' = processContent(text)
  /\ mathDone' = TRUE
  /\ UNCHANGED <<text, textVars, chatVars, extractVars, postVars>>

NextMath == ProcessContent

SpecMath == InitMath /\ [][NextMath]_vars

----------------------------------------------------------------------------
(* Vocabulary of the properties *)

\* 0-based positions at which t occurs in s
Occurrences(s, t) == {i \in 0..(Len(s) - Len(t)) : matchesAt(s, t, i)}

Has(s, t) == Occurrences(s, t) # {}

\* position of the first occurrence of t in s (t occurs in s)
FirstOccurrence(s, t) == Min(Occurrences(s, t))

AllWhiteSpace(s) == \A k \in 1..Len(s) : s[k] \in WhiteSpace

\* t is s without its leading and trailing white space
IsTrimOf(t, s) ==
  /\ t # <<>> => (t[1] \notin WhiteSpace /\ t[Len(t)] \notin WhiteSpace)
  /\ \E a \in 0..(Len(s) - Len(t)) :
        /\ SubSeq(s, a + 1, a + Len(t)) = t
        /\ AllWhiteSpace(SubSeq(s, 1, a))
        /\ AllWhiteSpace(SubSeq(s, a + Len(t) + 1, Len(s)))

\* a tag block as the repair writes it: the body on lines of its own
Block(tag, body) == OpenTag(tag) \o NL \o body \o NL \o CloseTag(tag)

\* exactly one reasoning block, then exactly one answer block, no other tag
WellFormedReply(s) ==
  LET ro == Occurrences(s, OpenTag("reasoning"))
      rc == Occurrences(s, CloseTag("reasoning"))
      ao == Occurrences(s, OpenTag("answer"))
      ac == Occurrences(s, CloseTag("answer"))
  IN  /\ Cardinality(ro) = 1 /\ Cardinality(rc) = 1
      /\ Cardinality(ao) = 1 /\ Cardinality(ac) = 1
      /\ \E a \in ro, b \in rc, c \in ao, d \in ac :
            /\ a + Len(OpenTag("reasoning")) <= b
            /\ b + Len(CloseTag("reasoning")) <= c
            /\ c + Len(OpenTag("answer")) <= d

\* some opening tag of that name is followed by a closing tag of that name
HasCompleteBlock(s, tag) ==
  \E i \in Occurrences(s, OpenTag(tag)), j \in Occurrences(s, CloseTag(tag)) :
     i + Len(OpenTag(tag)) <= j

\* the text between the first opening tag and the first closing tag after it
FirstBlockBody(s, tag) ==
  LET p == FirstOccurrence(s, OpenTag(tag)) + Len(OpenTag(tag))
      q == Min({j \in Occurrences(s, CloseTag(tag)) : p <= j})
  IN  SubSeq(s, p + 1, q)

FortyTwo == <<"4","2">>

----------------------------------------------------------------------------
(* Properties of the tag repair *)

\* C1: every text returned by the tag repair holds exactly one
\* <reasoning>...</reasoning> block followed by exactly one
\* <answer>...</answer> block and no other occurrence of either tag.
C1_RepairedIsWellFormed == "reply" \in done => WellFormedReply(reply)

\* C3: a text that holds both a <reasoning> and an <answer> opening tag is
\* returned by the repair unchanged.
C3_BothTagsUnchanged ==
  ( /\ "reply" \in done
    /\ Has(content, OpenTag("reasoning"))
    /\ Has(content, OpenTag("answer")) )
  => reply = content

C3_Witness ==
  /\ "reply" \in done
  /\ Has(content, OpenTag("reasoning"))
  /\ Has(content, OpenTag("answer"))
  /\ ~WellFormedReply(content)
  /\ reply = content

\* C4: with <reasoning> but no <answer>, the repair keeps the text up to and
\* including the </reasoning> closing tag and appends an answer block whose
\* body is the trimmed text after that closing tag, or the placeholder when
\* that text is empty.
C4_AnswerBlockAppended ==
  ( /\ "reply" \in done
    /\ Has(content, OpenTag("reasoning"))
    /\ ~Has(content, OpenTag("answer"))
    /\ HasCompleteBlock(content, "reasoning") )
  => LET e == FirstOccurrence(content, CloseTag("reasoning"))
                + Len(CloseTag("reasoning"))
         kept == SubSeq(content, 1, e)
         rest == SubSeq(content, e + 1, Len(content))
         block == SubSeq(reply, Len(kept) + 2, Len(reply))
         body == SubSeq(block, Len(OpenTag("answer")) + 2,
                        Len(block) - Len(CloseTag("answer")) - 1)
     IN  /\ reply = kept \o NL \o Block("answer", body)
         /\ IF AllWhiteSpace(rest) THEN body = NO_ANSWER
            ELSE IsTrimOf(body, rest)

\* C5: with <answer> but no <reasoning>, the repair prepends a reasoning
\* block whose body is the trimmed text before the first <answer> opening
\* tag, or the placeholder when that prefix is empty, and leaves the text
\* from that opening tag onward unchanged.
C5_ReasoningBlockPrepended ==
  ( /\ "reply" \in done
    /\ ~Has(content, OpenTag("reasoning"))
    /\ Has(content, OpenTag("answer")) )
  => LET p == FirstOccurrence(content, OpenTag("answer"))
         prefix == SubSeq(content, 1, p)
         tail == SubSeq(content, p + 1, Len(content))
         head == SubSeq(reply, 1, Len(reply) - Len(tail))
         body == SubSeq(head, Len(OpenTag("reasoning")) + 2,
                        Len(head) - Len(CloseTag("reasoning")) - 2)
     IN  /\ reply = head \o tail
         /\ head = Block("reasoning", body) \o NL
         /\ IF AllWhiteSpace(prefix) THEN body = NO_REASONING
            ELSE IsTrimOf(body, prefix)

C5_Witness ==
  /\ "reply" \in done
  /\ content = OpenTag("answer") \o FortyTwo \o CloseTag("answer")
  /\ reply = Block("reasoning", NO_REASONING) \o NL \o content

\* C6: with neither tag, the repair returns a reasoning block holding the
\* fixed placeholder followed by an answer block holding the entire text;
\* the empty text gives the placeholder and an empty answer block.
C6_UntaggedWrappedAsAnswer ==
  ( /\ "reply" \in done
    /\ ~Has(content, OpenTag("reasoning"))
    /\ ~Has(content, OpenTag("answer")) )
  => reply = Block("reasoning", NO_REASONING) \o NL \o Block("answer", content)

C6_Witness ==
  /\ "reply" \in done
  /\ content = <<>>
  /\ reply = Block("reasoning", NO_REASONING) \o NL \o Block("answer", <<>>)

----------------------------------------------------------------------------
(* Properties of extractContent *)

\* C2 as stated: for a non-empty text, the reasoning and the answer
\* extracted from the repaired text are never both empty.
C2_NeverBothEmpty ==
  ("render" \in done /\ content # <<>>)
  => ~(segments(reply).reasoning = <<>> /\ segments(reply).answer = <<>>)

\* the text holds at most one of the two opening tags, and no closing tag
\* whose opening tag it does not hold
AtMostOneTagKind(s) ==
  /\ ~(Has(s, OpenTag("reasoning")) /\ Has(s, OpenTag("answer")))
  /\ Has(s, CloseTag("reasoning")) => Has(s, OpenTag("reasoning"))
  /\ Has(s, CloseTag("answer")) => Has(s, OpenTag("answer"))

\* C2 amended: for a non-empty text that holds at most one of the two
\* opening tags and no closing tag without its opening tag, the reasoning
\* and the answer extracted from the repaired text are never both empty.
C2_NeverBothEmptyOneTagKind ==
  ("render" \in done /\ content # <<>> /\ AtMostOneTagKind(content))
  => ~(segments(reply).reasoning = <<>> /\ segments(reply).answer = <<>>)

C2_Witness ==
  /\ "render" \in done
  /\ AtMostOneTagKind(content)
  /\ content = OpenTag("answer")
  /\ segments(reply).reasoning = NO_REASONING
  /\ segments(reply).answer = <<>>
  /\ rendered.reasoning = NO_REASONING

\* for each segment name of which the text holds a complete block, the
\* extracted segment is the trimmed body of the first block
ExtractsFirstBlock(c, ext) ==
  \A tag \in {"reasoning", "answer"} :
     HasCompleteBlock(c, tag) => IsTrimOf(ext[tag], FirstBlockBody(c, tag))

\* C7: when the text holds a complete block of the requested name,
\* extractContent returns the trimmed text between the first opening tag
\* and the first closing tag after it; later blocks are ignored.
C7_FirstBlockExtracted ==
  /\ "extract" \in done => ExtractsFirstBlock(raw, extracted)
  /\ "render" \in done => ExtractsFirstBlock(reply, segments(reply))

C7_Witness ==
  /\ "extract" \in done
  /\ raw = OpenTag("answer") \o FortyTwo \o CloseTag("answer")
             \o OpenTag("answer") \o CloseTag("answer")
  /\ extracted.answer = FortyTwo

\* C8: with <reasoning> but no <answer>, the extracted answer is the
\* trimmed text after the </reasoning> closing tag, holding no character of
\* that tag, and empty when nothing follows the tag.
C8_AnswerIsTextAfterReasoning ==
  ( /\ "extract" \in done
    /\ Has(raw, OpenTag("reasoning"))
    /\ ~Has(raw, OpenTag("answer"))
    /\ Has(raw, CloseTag("reasoning")) )
  => LET e == FirstOccurrence(raw, CloseTag("reasoning"))
                + Len(CloseTag("reasoning"))
     IN  IsTrimOf(extracted.answer, SubSeq(raw, e + 1, Len(raw)))

\* C9: with <answer> but no <reasoning>, the extracted reasoning is the
\* trimmed text before the first <answer> opening tag, and the empty text,
\* not a placeholder, when that prefix is empty.
C9_ReasoningIsTextBeforeAnswer ==
  ( /\ "extract" \in done
    /\ ~Has(raw, OpenTag("reasoning"))
    /\ Has(raw, OpenTag("answer")) )
  => LET prefix == SubSeq(raw, 1, FirstOccurrence(raw, OpenTag("answer")))
     IN  /\ IsTrimOf(extracted.reasoning, prefix)
         /\ AllWhiteSpace(prefix) => extracted.reasoning = <<>>

C9_Witness ==
  /\ "extract" \in done
  /\ raw = <<" ">> \o FortyTwo \o OpenTag("answer")
  /\ extracted.reasoning = FortyTwo

\* C10: with neither tag, the extracted answer is the entire trimmed text
\* and the extracted reasoning is empty.
C10_UntaggedIsAnswer ==
  ( /\ "extract" \in done
    /\ ~Has(raw, OpenTag("reasoning"))
    /\ ~Has(raw, OpenTag("answer")) )
  => /\ IsTrimOf(extracted.answer, raw)
     /\ extracted.reasoning = <<>>

C10_Witness ==
  /\ "extract" \in done
  /\ raw = <<" ">> \o FortyTwo \o <<" ">>
  /\ extracted.answer = FortyTwo
  /\ extracted.reasoning = <<>>

----------------------------------------------------------------------------
(* Properties of getModelResponse as a whole *)

\* C18: every text getModelResponse returns, the 'Error: ...' text of a
\* failed call or of an unsupported model included, holds a complete
\* <reasoning> block and a complete <answer> block.
C18_EveryReturnIsTagComplete ==
  ("reply" \in done \/ "error" \in done)
  => /\ HasCompleteBlock(reply, "reasoning")
     /\ HasCompleteBlock(reply, "answer")

----------------------------------------------------------------------------
(* Properties of the vote ledger *)

\* the entries of the ledger for one turn
VotesFor(vs, messageIndex) ==
  {k \in 1..Len(vs) : vs[k].messageIndex = messageIndex}

\* the winner given in the most recent handleVote call for the turn, "null"
\* when there was none
LastCall(log, messageIndex) ==
  LET calls == VotesFor(log, messageIndex)
  IN  IF calls = {} THEN "null" ELSE log[Max(calls)].winner

\* C11: after any sequence of handleVote calls the ledger holds at most one
\* entry per turn index, and exactly one for every turn a call was made for.
C11_OneVotePerTurn ==
  \A messageIndex \in 0..(MaxTurns - 1) :
    /\ Cardinality(VotesFor(votes, messageIndex)) <= 1
    /\ VotesFor(voteLog, messageIndex) # {}
         => Cardinality(VotesFor(votes, messageIndex)) = 1

\* handleVote(0, 'A') then handleVote(0, 'B') was called: one vote for
\* turn 0, winner B
C11_Witness ==
  /\ voteLog = <<[messageIndex |-> 0, winner |-> "A"],
                 [messageIndex |-> 0, winner |-> "B"]>>
  /\ votes = <<[messageIndex |-> 0, winner |-> "B"]>>

\* C12: getVoteForMessage(t) is null exactly when no handleVote call was made
\* for turn t, and otherwise the winner of the most recent call for t.
C12_VoteIsLastCall ==
  \A messageIndex \in 0..(MaxTurns - 1) :
    getVoteForMessage(votes, messageIndex) = LastCall(voteLog, messageIndex)

\* turn 0 voted A, then turn 1 voted, then turn 0 changed to B
C12_Witness ==
  /\ Len(voteLog) = 3
  /\ voteLog[1] = [messageIndex |-> 0, winner |-> "A"]
  /\ voteLog[2].messageIndex = 1
  /\ voteLog[3] = [messageIndex |-> 0, winner |-> "B"]
  /\ getVoteForMessage(votes, 0) = "B"
  /\ getVoteForMessage(votes, 1) = voteLog[2].winner

----------------------------------------------------------------------------
(* Properties of the statistics *)

\* n / d rounded to the nearest integer, halves up
RoundHalfUp(n, d) == (2 * n + d) \div (2 * d)

\* the number of votes of the ledger naming the model
Wins(vs, model) == Cardinality({k \in 1..Len(vs) : vs[k].winner = model})

\* the statistics of a non-empty ledger as stated: the wins of each model
\* and 100 * wins / totalVotes rounded half up
StatedStats(vs) ==
  [modelA |-> [wins |-> Wins(vs, "A"),
               winRate |-> RoundHalfUp(100 * Wins(vs, "A"), Len(vs))],
   modelB |-> [wins |-> Wins(vs, "B"),
               winRate |-> RoundHalfUp(100 * Wins(vs, "B"), Len(vs))]]

\* C13: for a non-empty ledger the statistics the effect computes give, for
\* each model, wins = the number of votes naming it and winRate =
\* 100 * wins / totalVotes rounded to the nearest integer, halves up.
C13_WinRateIsRoundedPercentage ==
  (~effectDue /\ votes # <<>>) => voteStats = StatedStats(votes)

\* C14: for an empty ledger the computed statistics are wins 0 and winRate 0
\* for both models.
C14_EmptyLedgerZeroStats ==
  votes = <<>>
  => /\ computeVoteStats(votes) = ZeroStats
     /\ voteStats = ZeroStats

\* the effect has run on the empty ledger of a session with a resolved turn
C14_Witness ==
  /\ votes = <<>>
  /\ ~effectDue
  /\ Len(modelAResponses) = 1
  /\ voteStats.modelA.winRate = 0

\* C15: whenever voteStats differs from the statistics of the current
\* ledger, as after a handleVote call that adds or changes a vote, it
\* eventually equals them again.
C15_StatsFollowLedger ==
  (voteStats # computeVoteStats(votes)) ~> (voteStats = computeVoteStats(votes))

\* a vote for A was changed to B and the statistics show it
C15_Witness ==
  /\ voteLog = <<[messageIndex |-> 0, winner |-> "A"],
                 [messageIndex |-> 0, winner |-> "B"]>>
  /\ ~effectDue
  /\ voteStats.modelA.wins = 0
  /\ voteStats.modelB.wins = 1
  /\ voteStats.modelB.winRate = 100

----------------------------------------------------------------------------
(* Properties of the conversation state *)

\* C16: the replies stored at index i of modelAResponses and modelBResponses
\* are the replies to the prompt stored at index i of messages, whatever
\* submits succeeded or failed before.
C16_RepliesAlignedWithPrompts ==
  /\ \A i \in 1..Len(modelAResponses) :
       /\ i <= Len(messages)
       /\ modelAResponses[i].content = replyTo("A", messages[i].content)
  /\ \A i \in 1..Len(modelBResponses) :
       /\ i <= Len(messages)
       /\ modelBResponses[i].content = replyTo("B", messages[i].content)

\* C17: modelAResponses and modelBResponses have the same length, and that
\* length does not exceed the number of user messages.
C17_RepliesInPairs ==
  /\ Len(modelAResponses) = Len(modelBResponses)
  /\ Len(modelAResponses) <= Len(messages)

\* one request failed and one succeeded: two prompts, one pair of replies
C17_Witness ==
  /\ Len(messages) = 2
  /\ Len(modelAResponses) = 1
  /\ Len(modelBResponses) = 1
  /\ ~request.pending

----------------------------------------------------------------------------
(* Properties of processContent *)

\* the letter^digits tokens of s: a letter, the caret and the longest run
\* of digits after it
ExponentTokens(s) ==
  {substring(s, i, runEnd(s, i + 2, Digit)) :
     i \in {k \in 0..(Len(s) - 3) :
              /\ charAt(s, k) \in Letter
              /\ charAt(s, k + 1) = "^"
              /\ charAt(s, k + 2) \in Digit}}

\* C19: processContent encloses every letter^digits token of a text that is
\* not taken as already delimited in $...$, a token at the very start of
\* the text included.
C19_ExponentTokensWrapped ==
  (mathDone /\ ~alreadyDelimited(text))
  => \A token \in ExponentTokens(text) :
       includes(processed, <<"$">> \o token \o <<"$">>)

\* the 0-based positions of the dollars of s that open a span and close
\* one: the dollars are paired from the left, first with second, third with
\* fourth
DollarsBefore(s, i) == Cardinality({k \in 0..(i - 1) : charAt(s, k) = "$"})

OpensSpan(s, i) ==
  /\ charAt(s, i) = "$"
  /\ DollarsBefore(s, i) % 2 = 0
  /\ nextDollar(s, i + 1) # -1

ClosesSpan(s, i) ==
  /\ charAt(s, i) = "$"
  /\ DollarsBefore(s, i) % 2 = 1

\* C20: in the result of processContent for a text that is not taken as
\* already delimited, no $...$ span has whitespace right after its opening
\* dollar or right before its closing dollar.
C20_SpansTrimmedInside ==
  (mathDone /\ ~alreadyDelimited(text))
  => \A i \in 0..(Len(processed) - 1) :
       /\ OpensSpan(processed, i) => charAt(processed, i + 1) \notin WhiteSpace
       /\ ClosesSpan(processed, i) => charAt(processed, i - 1) \notin WhiteSpace

\* the $...$ spans of s, as pairs of the 0-based positions of their dollars
Spans(s) ==
  {<<i, nextDollar(s, i + 1)>> : i \in {k \in 0..(Len(s) - 1) : OpensSpan(s, k)}}

\* C21: every $...$ span of the input is found in the result as it was, with
\* no dollar inserted between its delimiters, and no dollar is put next to
\* a dollar of the input (the result has $$ only where the input has).
C21_DelimitedMathKept ==
  mathDone
  => /\ \A span \in Spans(text) :
          includes(processed, substring(text, span[1], span[2] + 1))
     /\ Has(processed, <<"$", "$">>) => Has(text, <<"$", "$">>)

\* C22: a text that holds at least one dollar and at least one backslash is
\* returned unchanged.
C22_DollarAndBackslashUnchanged ==
  (mathDone /\ Has(text, <<"$">>) /\ Has(text, <<"\\">>)) => processed = text

\* a text with a dollar, a backslash and a token the third rule would wrap
\* was returned as it was
C22_Witness ==
  /\ mathDone
  /\ Has(text, <<"$">>)
  /\ Has(text, <<"\\">>)
  /\ Has(text, <<" ", "x", "^", "2", " ">>)
  /\ processed = text

----------------------------------------------------------------------------
(* Further properties of extractContent *)

\* C29: when the text holds the opening tag of the requested name and no
\* closing tag of that name after an opening one, extractContent returns the
\* empty string, whatever else the text holds.
C29_UnclosedBlockIsEmpty ==
  \A tag \in Tags :
    /\ ("extract" \in done /\ Has(raw, OpenTag(tag))
          /\ ~HasCompleteBlock(raw, tag))
       => extracted[tag] = <<>>
    /\ ("render" \in done /\ Has(reply, OpenTag(tag))
          /\ ~HasCompleteBlock(reply, tag))
       => segments(reply)[tag] = <<>> /\ rendered[tag] = <<>>

\* '<answer>42' was extracted: the answer is empty
C29_Witness ==
  /\ "extract" \in done
  /\ raw = OpenTag("answer") \o FortyTwo
  /\ extracted.answer = <<>>

\* C24: all extractContent calls made with the same text and the same tag
\* return the same result, whatever calls were made before; it is the
\* result of a first call.
C24_ExtractIsStateless ==
  /\ \A m, n \in 1..Len(callLog) :
       callLog[m].tag = callLog[n].tag => callLog[m].result = callLog[n].result
  /\ \A n \in 1..Len(callLog) :
       callLog[n].result = extractContent(raw, callLog[n].tag)

\* the answer of '<answer>42</answer>' was extracted twice, with a
\* reasoning call in between: 42 both times
C24_Witness ==
  /\ raw = OpenTag("answer") \o FortyTwo \o CloseTag("answer")
  /\ Len(callLog) = 3
  /\ callLog[1] = [tag |-> "answer", result |-> FortyTwo]
  /\ callLog[2].tag = "reasoning"
  /\ callLog[3] = [tag |-> "answer", result |-> FortyTwo]

----------------------------------------------------------------------------
(* Properties of POST /api/chat *)

\* the text a model's side of the response holds for what its provider did
ExpectedText(model, outcome) ==
  IF ~(isOpenAIModel(model) \/ isAnthropicModel(model))
  THEN UNSUPPORTED_MODEL \o model
  ELSE IF outcome.kind = "throws" THEN ERROR_PREFIX \o outcome.text
  ELSE IF outcome.kind = "clientThrows"
  THEN FAILED_PREFIX \o model \o <<".", " ">> \o outcome.text
  ELSE IF isOpenAIModel(model) /\ outcome.text = <<>>
  THEN repairTags(NO_RESPONSE)
  ELSE repairTags(outcome.text)

\* C25: a request that passed the validation is answered with status 200 and
\* both texts; a side whose provider call failed holds its 'Error: ...'
\* text, and the other side holds the text of its own call.
C25_BothTextsReturned ==
  (validRequest(req) /\ response.status # 0)
  => /\ response.status = 200
     /\ response.modelAResponse = ExpectedText(req.modelA, settled.a.outcome)
     /\ response.modelBResponse = ExpectedText(req.modelB, settled.b.outcome)
     /\ response.modelAResponse # <<>>
     /\ response.modelBResponse # <<>>

\* model A's call threw Error('x') and model B's returned an answer block:
\* the response holds 'Error: x' and B's reply
C25_Witness ==
  /\ response.status = 200
  /\ settled.a.outcome = [kind |-> "throws", text |-> <<"x">>]
  /\ settled.b.outcome.kind = "text"
  /\ response.modelAResponse = ERROR_PREFIX \o <<"x">>
  /\ Has(response.modelBResponse,
         OpenTag("answer") \o FortyTwo \o CloseTag("answer"))

----------------------------------------------------------------------------
(* Further properties of the conversation state *)

\* s is an initial part of t: t has every entry of s at its index
IsPrefix(s, t) == Len(s) <= Len(t) /\ SubSeq(t, 1, Len(s)) = s

\* C23: every step leaves each entry of messages, modelAResponses and
\* modelBResponses at its index: the lists only grow at the end.
C23_EntriesNeverEdited ==
  [][/\ IsPrefix(messages, messages')
     /\ IsPrefix(modelAResponses, modelAResponses')
     /\ IsPrefix(modelBResponses, modelBResponses')]_vars

\* two prompts were submitted and answered and a vote was cast: the first
\* prompt and its replies are still at index 0
C23_Witness ==
  /\ Len(messages) = 2
  /\ messages[1].content = <<"p">>
  /\ messages[2].content = <<"q">>
  /\ Len(modelAResponses) = 2
  /\ modelAResponses[1].content = replyTo("A", <<"p">>)
  /\ modelBResponses[1].content = replyTo("B", <<"p">>)
  /\ votes # <<>>

\* C26: the step in which a request settles leaves the votes as they are
\* and, on success, adds the pair of replies; a handleVote step leaves the
\* messages and the replies as they are and stores its vote.
C26_VotesAndRepliesBothKept ==
  [][/\ (request.pending /\ ~request'.pending)
          => /\ votes' = votes
             /\ IsPrefix(modelAResponses, modelAResponses')
             /\ IsPrefix(modelBResponses, modelBResponses')
     /\ (voteLog' # voteLog)
          => /\ messages' = messages
             /\ modelAResponses' = modelAResponses
             /\ modelBResponses' = modelBResponses
             /\ \A messageIndex \in 0..(MaxTurns - 1) :
                  getVoteForMessage(votes', messageIndex)
                    = LastCall(voteLog', messageIndex)]_vars

\* a vote for turn 0 was cast while the request of turn 1 was in flight, and
\* the request succeeded: the vote and both pairs of replies are there
C26_Witness ==
  /\ ~request.pending
  /\ request.votedMeanwhile
  /\ request.votes = <<>>
  /\ Len(voteLog) = 1
  /\ votes = voteLog
  /\ Len(modelAResponses) = 2
  /\ Len(modelBResponses) = 2

\* C27: the messageIndex of every vote is below the length of both reply
\* lists.
C27_VotesReferToAnsweredTurns ==
  \A k \in 1..Len(votes) :
    /\ votes[k].messageIndex < Len(modelAResponses)
    /\ votes[k].messageIndex < Len(modelBResponses)

\* the second turn got its replies and a vote
C27_Witness ==
  /\ Len(modelAResponses) = 2
  /\ \E k \in 1..Len(votes) : votes[k].messageIndex = 1

\* C28: isLoading is true exactly while a request is outstanding, and
\* whenever it is true it becomes false again.
C28_LoadingEnds ==
  /\ [](isLoading <=> request.pending)
  /\ isLoading ~> ~isLoading

\* one request has failed and one has succeeded: loading is over
C28_Witness ==
  /\ ~isLoading
  /\ Len(messages) = 2
  /\ Len(modelAResponses) = 1
  /\ request.message = <<"q">>

====
